---- MODULE Spec2Model ----
(***************************************************************************)
(* Model of client.py: an interactive chat client that bridges an LLM      *)
(* chat-completion API with the tools of an MCP server.                    *)
(*                                                                         *)
(* The MCP session (list_tools, call_tool), the LLM endpoint               *)
(* (chat.completions.create) and the terminal (input) are external: every  *)
(* call to them returns a value drawn from a small set, or raises.         *)
(*                                                                         *)
(* Strings are sequences of text atoms; an Optional[str] is None (the      *)
(* empty tuple) or Str(s) (the one-element tuple holding s).               *)
(***************************************************************************)
EXTENDS Integers, Sequences, FiniteSets, TLC

(* ---- bounds of the model ---- *)
\* choices in one completion response
MaxChoices == 2
\* tool calls in one completion response, over all its choices
MaxCalls == 2
\* tools in one list_tools result
MaxTools == 2

(* ---- Optional values ---- *)
None == <<>>
Str(s) == <<s>>
IsNone(x) == x = None
\* Python truthiness of an Optional[str]: None and "" are falsy.
Truthy(x) == x # None /\ x[1] # <<>>

(* ---- sequences ---- *)
SeqsUpTo(S, lo, hi) == UNION {[1..n -> S] : n \in lo..hi}
Last(s) == s[Len(s)]
RECURSIVE NoRepeat(_)
NoRepeat(s) == \/ Len(s) <= 1
               \/ /\ \A i \in 2..Len(s) : s[i] # s[1]
                  /\ NoRepeat(Tail(s))

(* ---- str.strip, str.lower, str.endswith ---- *)
IsSpace(c) == c \in {" ", "\t"}
RECURSIVE LStrip(_)
LStrip(s) == IF s # <<>> /\ IsSpace(Head(s)) THEN LStrip(Tail(s)) ELSE s
RECURSIVE RStrip(_)
RStrip(s) == IF s # <<>> /\ IsSpace(Last(s)) THEN RStrip(SubSeq(s, 1, Len(s) - 1)) ELSE s
Strip(s) == RStrip(LStrip(s))
LowerChar(c) == CASE c = "Q" -> "q"
                  [] c = "U" -> "u"
                  [] c = "I" -> "i"
                  [] c = "T" -> "t"
                  [] c = "H" -> "h"
                  [] OTHER -> c
Lower(s) == [i \in 1..Len(s) |-> LowerChar(s[i])]
EndsWith(s, suf) == Len(suf) <= Len(s) /\ SubSeq(s, Len(s) - Len(suf) + 1, Len(s)) = suf

QUIT == <<"q", "u", "i", "t">>

(* ---- json.loads on the argument strings the LLM emits ---- *)
\* A decoded object is a set of <<key, value>> pairs.
ArgGood == <<"{", "\"x\"", ":", "1", "}">>
ArgEmpty == <<"{", "}">>
ArgBad == <<"{", "\"x\"", ":">>
JsonWellFormed(s) == \/ s = <<"{", "}">>
                     \/ /\ Len(s) = 5
                        /\ s[1] = "{" /\ s[3] = ":" /\ s[5] = "}"
                        /\ s[2] \in {"\"x\"", "\"y\""}
                        /\ s[4] \in {"1", "2"}
JsonKey(tok) == IF tok = "\"x\"" THEN "x" ELSE "y"
\* a decoder that takes a malformed text for the empty object
json_loads_lenient(s) ==
    IF ~JsonWellFormed(s) \/ s = <<"{", "}">> THEN [raised |-> "none", value |-> {}]
    ELSE [raised |-> "none", value |-> {<<JsonKey(s[2]), s[4]>>}]
\* json.loads: the decoded object, or the exception it raises
json_loads(s) ==
    IF ~JsonWellFormed(s) THEN [raised |-> "JSONDecodeError", value |-> {}]
    ELSE IF s = <<"{", "}">> THEN [raised |-> "none", value |-> {}]
    ELSE [raised |-> "none", value |-> {<<JsonKey(s[2]), s[4]>>}]
\* str(dict): Python's repr of the decoded object, not the JSON text.
DictRepr(d) == IF d = {} THEN <<"{", "}">>
               ELSE LET kv == CHOOSE p \in d : TRUE
                    IN <<"{", "'", kv[1], "'", ": ", kv[2], "}">>

\* f"[Calling tool {tool_name} with args {tool_args}]"
TraceLine(tool_name, tool_args) ==
    <<"[Calling tool ">> \o tool_name \o <<" with args ">> \o DictRepr(tool_args) \o <<"]">>

\* a join that ends every line with the separator
RECURSIVE JoinTerminated(_)
JoinTerminated(lines) == IF lines = <<>> THEN <<>>
                         ELSE lines[1] \o <<"\n">> \o JoinTerminated(Tail(lines))
\* "\n".join(lines)
RECURSIVE Join(_)
Join(lines) == IF lines = <<>> THEN <<>>
               ELSE IF Len(lines) = 1 THEN lines[1]
               ELSE lines[1] \o <<"\n">> \o Join(Tail(lines))

\* a filter on truthiness, which drops empty strings as well
RECURSIVE DropFalsy(_)
DropFalsy(ft) == IF ft = <<>> THEN <<>>
                 ELSE IF ~Truthy(Head(ft)) THEN DropFalsy(Tail(ft))
                 ELSE <<Head(ft)[1]>> \o DropFalsy(Tail(ft))
\* [text for text in final_text if text is not None], unwrapped
RECURSIVE DropNone(_)
DropNone(ft) == IF ft = <<>> THEN <<>>
                ELSE IF IsNone(Head(ft)) THEN DropNone(Tail(ft))
                ELSE <<Head(ft)[1]>> \o DropNone(Tail(ft))

(* ---- what the external collaborators may answer ---- *)
ToolNames == {<<"t1">>, <<"t2">>}
Schema(n) == IF n = <<"t1">> THEN "schema1" ELSE "schema2"
Tool(n) == [name |-> n, description |-> <<"about ">> \o n, inputSchema |-> Schema(n)]
\* list_tools results: tool names are unique within a session
ToolLists == {[i \in 1..Len(ns) |-> Tool(ns[i])] :
                ns \in {s \in SeqsUpTo(ToolNames, 0, MaxTools) : NoRepeat(s)}}

\* tool calls the LLM may request: a well-formed call of each tool, and one
\* whose argument string is cut short
ToolCalls == {[name |-> <<"t1">>, arguments |-> ArgGood],
              [name |-> <<"t2">>, arguments |-> ArgEmpty],
              [name |-> <<"t1">>, arguments |-> ArgBad]}
Contents == {None, Str(<<"a">>)}
ChoicesWith(k) == [role : {"assistant"}, content : Contents, tool_calls : [1..k -> ToolCalls]]
\* the responses of exactly n choices that request at most b tool calls in all
RECURSIVE ResponsesOf(_, _)
ResponsesOf(n, b) ==
    IF n = 0 THEN {<<>>}
    ELSE UNION {{<<c>> \o r : c \in ChoicesWith(k), r \in ResponsesOf(n - 1, b - k)} : k \in 0..b}
Responses == UNION {ResponsesOf(n, MaxCalls) : n \in 1..MaxChoices}
\* follow-up responses: only choices[0] is read
FollowResponses ==
    {<<[role |-> "assistant", content |-> None, tool_calls |-> <<>>]>>,
     <<[role |-> "assistant", content |-> Str(<<"f">>), tool_calls |-> <<>>]>>,
     <<[role |-> "assistant", content |-> Str(<<>>),
        tool_calls |-> <<[name |-> <<"t1">>, arguments |-> ArgGood]>>]>>}
\* call_tool results: result['content'] needs a subscriptable result
ToolResults == {[subscriptable |-> TRUE, content |-> <<"r">>],
                [subscriptable |-> FALSE, content |-> <<"r">>]}

\* input() lines
Lines == {<<"q", "u", "i", "t">>,
          <<" ", "Q", "u", "I", "t", "\t">>,
          <<"q", "u", " ", "i", "t">>,
          <<" ", "H", "i">>}

\* sys.argv
Prog == <<"c", ".", "p", "y">>
Argvs == {<<Prog>>,
          <<Prog, <<"s", ".", "p", "y">>>>,
          <<Prog, <<"s", ".", "s", "h">>>>}

(* ---- exceptions ---- *)
\* Everything raised here derives from Exception; chat_loop's handlers are
\* tried in order: UnicodeDecodeError first, then Exception.
\* the exception classes raised here; all of them derive from Exception
Exceptions == {"UnicodeDecodeError", "JSONDecodeError", "TypeError", "McpError", "APIError",
               "ValueError", "OSError", "EOFError"}
\* a chat_loop without the clause of line 142
CaughtDecodingOnly(exc) == exc = "UnicodeDecodeError"
\* lines 137-143: whether one of the except clauses of chat_loop catches exc
Caught(exc) == exc \in Exceptions
\* lines 140-143: what the matching clause prints
Handler(exc) == IF exc = "UnicodeDecodeError" THEN "Decoding error" ELSE "Error"
\* a main that swallows a connection failure and starts the loop all the same
MainTryLoopAnyway(exc) == IF exc \in {"ValueError", "OSError", "McpError"} THEN "input"
                          ELSE "cleanup"
\* a main that calls cleanup after the try block instead of in a finally clause
MainTryNoFinally(exc) == IF exc = "none" THEN "cleanup" ELSE "exit"
\* lines 156-160: where control goes when the try block of main is left, normally
\* (exc = "none") or by exception exc: the finally clause runs either way
MainTry(exc) == "cleanup"

(* ---- pure parts of process_query ---- *)
\* declarations built in the reverse order of the tools
ToFunctionDeclarationsReversed(tools) ==
    [i \in 1..Len(tools) |->
        [type |-> "function",
         description |-> tools[Len(tools) + 1 - i].description,
         function |-> [name |-> tools[Len(tools) + 1 - i].name,
                       parameters |-> tools[Len(tools) + 1 - i].inputSchema]]]
\* lines 67-76: one declaration per tool, in order
ToFunctionDeclarations(tools) ==
    [i \in 1..Len(tools) |->
        [type |-> "function",
         description |-> tools[i].description,
         function |-> [name |-> tools[i].name, parameters |-> tools[i].inputSchema]]]

\* a transcript kept from one call of process_query to the next
InitialMessagesKept(prev, query) == Append(prev, [role |-> "user", content |-> query])
\* lines 59-64: the transcript is a new list holding the query; whatever list an
\* earlier call built (prev) is not used
InitialMessages(prev, query) == <<[role |-> "user", content |-> query]>>

\* a first request that leaves the tools out
InitialToolsOmitted(decls) == None
\* lines 78-83: the first request passes tools=available_tools
InitialTools(decls) == Str(decls)
\* a follow-up request that passes the declarations again
FollowUpToolsResent(decls) == Str(decls)
\* lines 114-118: the follow-up request has no tools argument
FollowUpTools(decls) == None

\* a loop over the choices of whatever response is bound last
IteratedChoicesRebound(current, rebound) == rebound
\* a loop that also takes up the choices of each follow-up response
IteratedChoicesExtended(current, rebound) == current \o rebound
\* line 89: the for loop iterates the list it was started on; rebinding
\* response at line 114 does not change it
IteratedChoices(current, rebound) == current

\* line 92: message.role == 'assistant' and message.tool_calls
HasToolCalls(message) == message.role = "assistant" /\ message.tool_calls # <<>>

\* a tool result put in front of the transcript
AppendResultInFront(msgs, message, res) ==
    <<[role |-> "user", content |-> res.content]>>
    \o (IF Truthy(message.content)
          THEN Append(msgs, [role |-> "assistant", content |-> message.content[1]])
          ELSE msgs)
\* a tool result appended under a role of its own
AppendResultAsTool(msgs, message, res) ==
    (IF Truthy(message.content)
       THEN Append(msgs, [role |-> "assistant", content |-> message.content[1]])
       ELSE msgs)
    \o <<[role |-> "tool", content |-> res.content]>>
\* lines 104-112: the assistant content (if truthy), then the tool result as a user message
AppendResult(msgs, message, res) ==
    (IF Truthy(message.content)
       THEN Append(msgs, [role |-> "assistant", content |-> message.content[1]])
       ELSE msgs)
    \o <<[role |-> "user", content |-> res.content]>>

\* an output that lists the latest entry first
OutputLatestFirst(ft) == Join(DropNone([i \in 1..Len(ft) |-> ft[Len(ft) + 1 - i]]))
\* lines 123-124
Output(ft) == Join(DropNone(ft))

\* a comparison that forgets lower()
IsQuitCaseSensitive(q) == q = QUIT
\* line 134, applied to the stripped line
IsQuit(q) == Lower(q) = QUIT

(* ---- state ---- *)
VARIABLES
    pc,              \* where the single flow of control is
    argv,            \* sys.argv
    session,         \* "none", "open" (self.session set), "closed" (exit stack closed)
    cleanups,        \* number of times cleanup() ran
    failure,         \* exception propagating out of main ("none" if none)
    line,            \* the last line input() returned
    served,          \* process_query invocations made for that line
    messages,        \* process_query: messages
    available_tools, \* process_query: available_tools
    choices,         \* process_query: the list iterated by the for loop of line 89
    response,        \* process_query: response (rebound at line 114)
    ci,              \* index of the current choice
    ti,              \* index of the current tool call in the current choice
    final_text,      \* process_query: final_text
    result,          \* process_query: result of the last call_tool
    log,             \* external calls made since input() was last called (or since start)
    outcome          \* how process_query ended for that line and what chat_loop printed

vars == <<pc, argv, session, cleanups, failure, line, served, messages,
          available_tools, choices, response, ci, ti, final_text, result, log,
          outcome>>

locals == <<messages, available_tools, choices, response, ci, ti, final_text, result>>

NoResult == [subscriptable |-> FALSE, content |-> <<>>]
NoOutcome == [kind |-> "none", value |-> <<>>, exc |-> "none", report |-> "none"]

\* the frame of process_query is gone once it returns or raises; the list it
\* built as messages is left as it was, for line 59 to replace
DropLocals ==
    /\ messages' = messages
    /\ available_tools' = <<>>
    /\ choices' = <<>>
    /\ response' = <<>>
    /\ ci' = 0
    /\ ti' = 0
    /\ final_text' = <<>>
    /\ result' = NoResult

Ev(op, ok, req, rep) == [op |-> op, ok |-> ok, req |-> req, rep |-> rep]

Init ==
    /\ pc = "main"
    /\ argv \in Argvs
    /\ session = "none"
    /\ cleanups = 0
    /\ failure = "none"
    /\ line = <<>>
    /\ served = 0
    /\ messages = <<>>
    /\ available_tools = <<>>
    /\ choices = <<>>
    /\ response = <<>>
    /\ ci = 0
    /\ ti = 0
    /\ final_text = <<>>
    /\ result = NoResult
    /\ log = <<>>
    /\ outcome = NoOutcome

(* ---- main, lines 149-160 ---- *)
\* lines 150-154
MainStart ==
    /\ pc = "main"
    /\ IF Len(argv) < 2
         THEN pc' = "exit" /\ failure' = "SystemExit"
         ELSE pc' = "connect" /\ failure' = "none"
    /\ UNCHANGED <<argv, session, cleanups, line, served, locals, log, outcome>>

\* connect_to_server, lines 26-55; an exception leaves main's try for its finally
ConnectBadPath ==
    /\ pc = "connect"
    /\ ~(EndsWith(argv[2], <<".", "p", "y">>) \/ EndsWith(argv[2], <<".", "j", "s">>))
    /\ pc' = MainTry("ValueError")
    /\ failure' = "ValueError"
    /\ UNCHANGED <<argv, session, cleanups, line, served, locals, log, outcome>>

\* stdio_client or ClientSession cannot be entered (lines 43-47)
ConnectTransportFails ==
    /\ pc = "connect"
    /\ EndsWith(argv[2], <<".", "p", "y">>) \/ EndsWith(argv[2], <<".", "j", "s">>)
    /\ pc' = MainTry("OSError")
    /\ failure' = "OSError"
    /\ UNCHANGED <<argv, session, cleanups, line, served, locals, log, outcome>>

\* session.initialize() raises (line 50)
ConnectInitializeFails ==
    /\ pc = "connect"
    /\ EndsWith(argv[2], <<".", "p", "y">>) \/ EndsWith(argv[2], <<".", "j", "s">>)
    /\ session' = "open"
    /\ pc' = MainTry("McpError")
    /\ failure' = "McpError"
    /\ UNCHANGED <<argv, cleanups, line, served, locals, log, outcome>>

\* session.list_tools() raises (line 53)
ConnectListToolsFails ==
    /\ pc = "connect"
    /\ EndsWith(argv[2], <<".", "p", "y">>) \/ EndsWith(argv[2], <<".", "j", "s">>)
    /\ session' = "open"
    /\ log' = Append(log, Ev("list_tools", FALSE, <<>>, <<>>))
    /\ pc' = MainTry("McpError")
    /\ failure' = "McpError"
    /\ UNCHANGED <<argv, cleanups, line, served, locals, outcome>>

ConnectOk ==
    /\ pc = "connect"
    /\ EndsWith(argv[2], <<".", "p", "y">>) \/ EndsWith(argv[2], <<".", "j", "s">>)
    /\ \E tools \in ToolLists :
         log' = Append(log, Ev("list_tools", TRUE, <<>>, tools))
    /\ session' = "open"
    /\ pc' = "input"
    /\ UNCHANGED <<argv, cleanups, failure, line, served, locals, outcome>>

\* cleanup, lines 145-147, from the finally of line 159
Cleanup ==
    /\ pc = "cleanup"
    /\ cleanups' = cleanups + 1
    /\ session' = "closed"
    /\ pc' = "exit"
    /\ UNCHANGED <<argv, failure, line, served, locals, log, outcome>>

(* ---- chat_loop, lines 126-143 ---- *)
\* input() raises (end of input): outside the try of line 137
InputEOF ==
    /\ pc = "input"
    /\ pc' = MainTry("EOFError")
    /\ failure' = "EOFError"
    /\ log' = <<>>
    /\ outcome' = NoOutcome
    /\ UNCHANGED <<argv, session, cleanups, line, served, locals>>

\* lines 132-135: 'quit' breaks out of the loop
InputQuit ==
    /\ pc = "input"
    /\ \E l \in Lines :
         /\ IsQuit(Strip(l))
         /\ line' = l
    /\ served' = 0
    /\ log' = <<>>
    /\ outcome' = NoOutcome
    /\ pc' = MainTry("none")
    /\ UNCHANGED <<argv, session, cleanups, failure, locals>>

\* lines 132-138 and 59-64: any other line enters process_query
InputQuery ==
    /\ pc = "input"
    /\ \E l \in Lines :
         /\ ~IsQuit(Strip(l))
         /\ line' = l
         /\ messages' = InitialMessages(messages, Strip(l))
    /\ served' = 1
    /\ log' = <<>>
    /\ outcome' = NoOutcome
    /\ pc' = "list_tools"
    /\ UNCHANGED <<argv, session, cleanups, failure, available_tools, choices,
                   response, ci, ti, final_text, result>>

\* process_query raises exc: a clause of lines 140-143 reports it and the loop goes
\* on, or nothing catches it and it leaves chat_loop and the try block of main
Raise(exc) ==
    /\ IF Caught(exc)
         THEN /\ outcome' = [kind |-> "raise", value |-> <<>>, exc |-> exc,
                            report |-> Handler(exc)]
              /\ pc' = "input"
              /\ failure' = failure
         ELSE /\ outcome' = [kind |-> "raise", value |-> <<>>, exc |-> exc, report |-> "none"]
              /\ pc' = MainTry(exc)
              /\ failure' = exc
    /\ DropLocals

(* ---- process_query, lines 57-124 ---- *)
\* line 66
ListToolsFails ==
    /\ pc = "list_tools"
    /\ log' = Append(log, Ev("list_tools", FALSE, <<>>, <<>>))
    /\ Raise("McpError")
    /\ UNCHANGED <<argv, session, cleanups, line, served>>

\* lines 66-76
ListTools ==
    /\ pc = "list_tools"
    /\ \E tools \in ToolLists :
         /\ log' = Append(log, Ev("list_tools", TRUE, <<>>, tools))
         /\ available_tools' = ToFunctionDeclarations(tools)
    /\ pc' = "completion"
    /\ UNCHANGED <<argv, session, cleanups, failure, line, served, messages, choices,
                   response, ci, ti, final_text, result, outcome>>

\* line 78
CompletionFails ==
    /\ pc = "completion"
    /\ log' = Append(log, Ev("completion", FALSE,
                             [messages |-> messages, tools |-> InitialTools(available_tools)], <<>>))
    /\ Raise("APIError")
    /\ UNCHANGED <<argv, session, cleanups, line, served>>

\* lines 78-89
Completion ==
    /\ pc = "completion"
    /\ \E r \in Responses :
         /\ log' = Append(log, Ev("completion", TRUE,
                                  [messages |-> messages, tools |-> InitialTools(available_tools)], r))
         /\ response' = r
         /\ choices' = r
    /\ ci' = 1
    /\ ti' = 1
    /\ pc' = "choice"
    /\ UNCHANGED <<argv, session, cleanups, failure, line, served, messages,
                   available_tools, final_text, result, outcome>>

\* lines 121-122: a plain assistant message
PlainChoice ==
    /\ pc = "choice"
    /\ ci <= Len(choices)
    /\ ~HasToolCalls(choices[ci])
    /\ final_text' = IF choices[ci].role = "assistant"
                       THEN Append(final_text, choices[ci].content)
                       ELSE final_text
    /\ ci' = ci + 1
    /\ UNCHANGED <<pc, argv, session, cleanups, failure, line, served, messages,
                   available_tools, choices, response, ti, result, log, outcome>>

\* a dispatch loop that leaves the message after its first tool call
NextIndexBreak(c, t, n) == <<c + 1, 1>>
\* a dispatch loop that goes round again on the same tool call
NextIndexAgain(c, t, n) == <<c, t>>
\* the for loops of lines 89 and 93 advance
NextIndex(c, t, n) == IF t < n THEN <<c, t + 1>> ELSE <<c + 1, 1>>

\* a dispatch loop that catches the decode error and goes on to the next tool call
DecodeFailsSkips ==
    /\ pc = "choice"
    /\ ci <= Len(choices)
    /\ HasToolCalls(choices[ci])
    /\ json_loads(choices[ci].tool_calls[ti].arguments).raised # "none"
    /\ LET nx == NextIndex(ci, ti, Len(choices[ci].tool_calls)) IN
         /\ ci' = nx[1]
         /\ ti' = nx[2]
    /\ UNCHANGED <<pc, argv, session, cleanups, failure, line, served, messages,
                   available_tools, choices, response, final_text, result, log, outcome>>
\* line 95: json.loads raises
DecodeFails ==
    /\ pc = "choice"
    /\ ci <= Len(choices)
    /\ HasToolCalls(choices[ci])
    /\ LET decoded == json_loads(choices[ci].tool_calls[ti].arguments) IN
         /\ decoded.raised # "none"
         /\ Raise(decoded.raised)
    /\ UNCHANGED <<argv, session, cleanups, line, served, log>>

\* lines 94-98: call_tool raises
CallToolFails ==
    /\ pc = "choice"
    /\ ci <= Len(choices)
    /\ HasToolCalls(choices[ci])
    /\ LET tool_call == choices[ci].tool_calls[ti]
           decoded == json_loads(tool_call.arguments)
       IN /\ decoded.raised = "none"
          /\ log' = Append(log, Ev("call_tool", FALSE,
                                   [name |-> tool_call.name, arguments |-> decoded.value],
                                   <<>>))
    /\ Raise("McpError")
    /\ UNCHANGED <<argv, session, cleanups, line, served>>

\* lines 94-101
CallTool ==
    /\ pc = "choice"
    /\ ci <= Len(choices)
    /\ HasToolCalls(choices[ci])
    /\ LET tool_call == choices[ci].tool_calls[ti]
           decoded == json_loads(tool_call.arguments)
       IN /\ decoded.raised = "none"
          /\ LET tool_name == tool_call.name
                 tool_args == decoded.value
             IN \E res \in ToolResults :
                 /\ log' = Append(log, Ev("call_tool", TRUE,
                                          [name |-> tool_name, arguments |-> tool_args], res))
                 /\ result' = res
                 /\ final_text' = Append(final_text, Str(TraceLine(tool_name, tool_args)))
    /\ pc' = "followup"
    /\ UNCHANGED <<argv, session, cleanups, failure, line, served, messages,
                   available_tools, choices, response, ci, ti, outcome>>

\* line 111: result['content'] on a result that is not subscriptable
ResultNotSubscriptable ==
    /\ pc = "followup"
    /\ ~result.subscriptable
    /\ Raise("TypeError")
    /\ UNCHANGED <<argv, session, cleanups, line, served, log>>

\* lines 104-114: the transcript grows, then the follow-up completion raises
FollowUpFails ==
    /\ pc = "followup"
    /\ result.subscriptable
    /\ log' = Append(log, Ev("completion", FALSE,
                             [messages |-> AppendResult(messages, choices[ci], result),
                              tools |-> FollowUpTools(available_tools)], <<>>))
    /\ Raise("APIError")
    /\ UNCHANGED <<argv, session, cleanups, line, served>>

\* lines 104-120
FollowUp ==
    /\ pc = "followup"
    /\ result.subscriptable
    /\ messages' = AppendResult(messages, choices[ci], result)
    /\ \E r \in FollowResponses :
         /\ log' = Append(log, Ev("completion", TRUE,
                                  [messages |-> messages',
                                   tools |-> FollowUpTools(available_tools)], r))
         /\ response' = r
         /\ choices' = IteratedChoices(choices, r)
         /\ final_text' = Append(final_text, r[1].content)
    /\ LET nx == NextIndex(ci, ti, Len(choices[ci].tool_calls)) IN
         /\ ci' = nx[1]
         /\ ti' = nx[2]
    /\ pc' = "choice"
    /\ UNCHANGED <<argv, session, cleanups, failure, line, served, available_tools,
                   result, outcome>>

\* lines 123-124, then line 139
Return ==
    /\ pc = "choice"
    /\ ci > Len(choices)
    /\ outcome' = [kind |-> "return", value |-> Output(final_text), exc |-> "none",
                   report |-> "answer"]
    /\ pc' = "input"
    /\ DropLocals
    /\ UNCHANGED <<argv, session, cleanups, failure, line, served, log>>

Next ==
    \/ MainStart
    \/ ConnectBadPath
    \/ ConnectTransportFails
    \/ ConnectInitializeFails
    \/ ConnectListToolsFails
    \/ ConnectOk
    \/ Cleanup
    \/ InputEOF
    \/ InputQuit
    \/ InputQuery
    \/ ListToolsFails
    \/ ListTools
    \/ CompletionFails
    \/ Completion
    \/ PlainChoice
    \/ DecodeFails
    \/ CallToolFails
    \/ CallTool
    \/ ResultNotSubscriptable
    \/ FollowUpFails
    \/ FollowUp
    \/ Return

Spec == Init /\ [][Next]_vars

(***************************************************************************)
(* Properties.  log is read as the record of the query in progress or just *)
(* ended: log[1] is its list_tools call and log[2] its first completion.   *)
(***************************************************************************)
Ops(l) == [i \in 1..Len(l) |-> l[i].op]
RECURSIVE FlatCalls(_)
\* the tool calls a response requests, in the order emitted
FlatCalls(r) == IF r = <<>> THEN <<>> ELSE Head(r).tool_calls \o FlatCalls(Tail(r))
\* the first completion of the query has been answered
Answered == Len(log) >= 2 /\ log[2].op = "completion" /\ log[2].ok
Returned == outcome.kind = "return"
Raised == outcome.kind = "raise"
CallEvents == {i \in 1..Len(log) : log[i].op = "call_tool"}
Known(name, tools) == \E j \in 1..Len(tools) : tools[j].name = name

\* C1: when the first response is one message requesting one tool call and the
\* query returns, the external calls were exactly list_tools, the completion
\* with the tool declarations, call_tool for the requested tool, and one
\* follow-up completion, in that order; when the follow-up is a plain message
\* the output is the trace line followed by the follow-up's text.
C1_SingleToolCallRound ==
    (Returned /\ Answered /\ Len(log[2].rep) = 1 /\ Len(log[2].rep[1].tool_calls) = 1) =>
        LET call == log[2].rep[1].tool_calls[1]
            trace == TraceLine(call.name, json_loads(call.arguments).value)
        IN /\ Ops(log) = <<"list_tools", "completion", "call_tool", "completion">>
           /\ log[2].req.tools # None
           /\ log[3].req.name = call.name
           /\ log[4].req.tools = None
           /\ log[4].rep[1].tool_calls = <<>> =>
                outcome.value = IF log[4].rep[1].content = None THEN trace
                                ELSE trace \o <<"\n">> \o log[4].rep[1].content[1]

C1_Witness ==
    /\ Returned /\ Answered
    /\ Len(log[2].rep) = 1 /\ Len(log[2].rep[1].tool_calls) = 1
    /\ Len(log) = 4
    /\ log[4].rep[1].tool_calls = <<>>
    /\ log[4].rep[1].content = Str(<<"f">>)

\* C2: after the first completion the external calls alternate call_tool and
\* follow-up completion: the j-th call_tool is the j-th tool call the first
\* response requested, each follow-up comes right after a call_tool that
\* returned, and a query that returns made one of each per requested tool call.
C2_ToolCallsInterleaved ==
    Answered =>
        LET calls == FlatCalls(log[2].rep) IN
        /\ \A i \in 3..Len(log) :
             IF i % 2 = 1
               THEN /\ log[i].op = "call_tool"
                    /\ (i - 1) \div 2 <= Len(calls)
                    /\ log[i].req.name = calls[(i - 1) \div 2].name
                    /\ log[i].req.arguments = json_loads(calls[(i - 1) \div 2].arguments).value
               ELSE /\ log[i].op = "completion"
                    /\ log[i].req.tools = None
                    /\ log[i - 1].ok
        /\ Returned => Len(log) = 2 + 2 * Len(calls)

C2_Witness ==
    /\ Returned /\ Answered
    /\ Len(log[2].rep) = 1
    /\ Len(log[2].rep[1].tool_calls) = 2
    /\ Len(log) = 6
    /\ log[3].req.name = <<"t1">> /\ log[4].op = "completion"
    /\ log[5].req.name = <<"t2">> /\ log[6].op = "completion"

\* C3: call_tool is never issued for a tool name that the last list_tools
\* result does not hold, and a query whose first response requests such a
\* tool does not return normally.
C3_UnknownToolNotCalled ==
    /\ \A i \in CallEvents : log[1].op = "list_tools" /\ Known(log[i].req.name, log[1].rep)
    /\ (Returned /\ Answered) =>
          \A j \in 1..Len(FlatCalls(log[2].rep)) :
              Known(FlatCalls(log[2].rep)[j].name, log[1].rep)

\* C4 as stated: a first response of one plain message ends the query after
\* one completion and no call_tool, and the output equals the content.
C4_Original ==
    (Returned /\ Answered /\ Len(log[2].rep) = 1 /\ log[2].rep[1].tool_calls = <<>>) =>
        /\ Ops(log) = <<"list_tools", "completion">>
        /\ Str(outcome.value) = log[2].rep[1].content

\* C4: a first response of one plain message ends the query after one
\* completion and no call_tool; the output is the content, and the empty
\* string when the content is null.
C4_PlainAnswer ==
    (Returned /\ Answered /\ Len(log[2].rep) = 1 /\ log[2].rep[1].tool_calls = <<>>) =>
        /\ Ops(log) = <<"list_tools", "completion">>
        /\ outcome.value = IF log[2].rep[1].content = None THEN <<>>
                           ELSE log[2].rep[1].content[1]

C4_Witness ==
    /\ Returned /\ Answered
    /\ Len(log[2].rep) = 1 /\ log[2].rep[1].tool_calls = <<>>
    /\ log[2].rep[1].content = None
    /\ outcome.value = <<>>

C6_DecodeErrorDistinct ==
    Answered =>
        LET calls == FlatCalls(log[2].rep)
            done == Cardinality(CallEvents)
            atDecode == Last(log).op = "completion" /\ Last(log).ok
        IN /\ \A j \in 1..done : j <= Len(calls) => JsonWellFormed(calls[j].arguments)
           /\ Returned => \A j \in 1..Len(calls) : JsonWellFormed(calls[j].arguments)
           /\ (Raised /\ atDecode) =>
                /\ outcome.exc = "JSONDecodeError"
                /\ done < Len(calls)
                /\ ~JsonWellFormed(calls[done + 1].arguments)
           /\ (Raised /\ outcome.exc = "JSONDecodeError") => atDecode

C6_Witness ==
    /\ Raised /\ Answered
    /\ outcome.exc = "JSONDecodeError"
    /\ Len(log) = 4
    /\ FlatCalls(log[2].rep)[2].arguments = ArgBad

\* C7: a line that is 'quit' in any letter case between optional blanks ends
\* the loop with no process_query and no external call made for it; any
\* other line read is passed to process_query once.
QuitLetters == <<{"q", "Q"}, {"u", "U"}, {"i", "I"}, {"t", "T"}>>
QuitLike(l) ==
    \E i \in 1..Len(l) :
        /\ i + 3 <= Len(l)
        /\ \A k \in 1..4 : l[i + k - 1] \in QuitLetters[k]
        /\ \A j \in 1..(i - 1) : l[j] \in {" ", "\t"}
        /\ \A j \in (i + 4)..Len(l) : l[j] \in {" ", "\t"}
C7_QuitEndsLoop ==
    (pc \notin {"main", "connect"} /\ line # <<>>) =>
        IF QuitLike(line)
          THEN served = 0 /\ pc \in {"cleanup", "exit"} /\ log = <<>>
          ELSE served = 1

C7_Witness ==
    /\ line = <<" ", "Q", "u", "I", "t", "\t">>
    /\ served = 0
    /\ pc = "exit"

\* C8: the tool declarations sent with the first completion are as many as
\* the tools list_tools returned, in the same order, each with its tool's
\* name and its tool's inputSchema as parameters.
C8_DeclarationsMatchTools ==
    (Len(log) >= 2 /\ log[1].op = "list_tools" /\ log[2].op = "completion") =>
        LET tools == log[1].rep
            sent == log[2].req.tools
        IN /\ sent # None
           /\ Len(sent[1]) = Len(tools)
           /\ \A i \in 1..Len(tools) :
                /\ sent[1][i].function.name = tools[i].name
                /\ sent[1][i].function.parameters = tools[i].inputSchema

C8_Witness ==
    /\ Len(log) >= 2 /\ log[2].op = "completion"
    /\ Len(log[1].rep) = 2
    /\ log[1].rep[1].name = <<"t2">>
    /\ log[2].req.tools[1][2].function.name = <<"t1">>

\* C9: once the client exists, main ends with cleanup run exactly once,
\* whatever ended the try block, and nothing at all happens after cleanup.
C9_CleanupOnEveryExit ==
    /\ cleanups <= 1
    /\ pc = "exit" => cleanups = (IF Len(argv) >= 2 THEN 1 ELSE 0)
    /\ cleanups = 1 => pc = "exit" /\ session = "closed" /\ ~ENABLED Next

C9_Witness ==
    /\ pc = "exit"
    /\ cleanups = 1
    /\ failure = "EOFError"

\* C10: a process_query that raises is reported by chat_loop, which is then
\* back at input() with the session still open: the failure leaves neither
\* chat_loop nor main.
C10_FailureKeepsSession ==
    Raised =>
        /\ pc = "input"
        /\ outcome.report \in {"Error", "Decoding error"}
        /\ failure = "none"
        /\ session = "open"
        /\ cleanups = 0
        /\ ENABLED InputQuery

C10_Witness ==
    /\ Raised
    /\ outcome.exc = "McpError"
    /\ Last(log).op = "call_tool"
    /\ pc = "input"

(* ---- the transcript ---- *)
IsPrefix(s, t) == Len(s) <= Len(t) /\ SubSeq(t, 1, Len(s)) = s
CompletionEvents == {i \in 1..Len(log) : log[i].op = "completion"}
\* for each tool call a response requests, the content of the message requesting it
RECURSIVE FlatOwners(_)
FlatOwners(r) ==
    IF r = <<>> THEN <<>>
    ELSE [k \in 1..Len(Head(r).tool_calls) |-> Head(r).content] \o FlatOwners(Tail(r))
UserMessage(text) == [role |-> "user", content |-> text]

\* C11: the first completion request of a query carries one user message
\* holding the text of the line just read, and a step that starts a query
\* leaves nothing else in the transcript, whatever transcript the query
\* before it had built.
C11_FreshTranscript ==
    /\ []((Len(log) >= 2 /\ log[2].op = "completion") =>
            log[2].req.messages = <<UserMessage(Strip(line))>>)
    /\ [][(pc = "input" /\ pc' = "list_tools") =>
            messages' = <<UserMessage(Strip(line'))>>]_vars

\* an earlier query, ended by a return or by a failure, has left a transcript
\* of several messages, and the next line is about to be read
C11_Witness ==
    /\ pc = "input"
    /\ outcome.kind \in {"return", "raise"}
    /\ Len(messages) >= 3
    /\ messages[1] = UserMessage(Strip(line))

\* C12: of two completion requests of one query the earlier transcript is a
\* prefix of the later one, and between requests the transcript is the one
\* last sent.
C12_TranscriptAppendOnly ==
    /\ \A i, j \in CompletionEvents :
         i < j => IsPrefix(log[i].req.messages, log[j].req.messages)
    /\ (pc \in {"choice", "followup"} /\ CompletionEvents # {}) =>
         \E i \in CompletionEvents :
             /\ \A j \in CompletionEvents : j <= i
             /\ messages = log[i].req.messages

C12_Witness ==
    /\ Returned /\ Answered
    /\ Len(log) = 6
    /\ Len(log[2].req.messages) = 1
    /\ Len(log[4].req.messages) = 3
    /\ Len(log[6].req.messages) = 5

\* C13: the transcript of the follow-up completion of a tool call is the
\* transcript of the completion before it, then the requesting message's
\* content as an assistant message if that content is neither null nor
\* empty, then the tool result as a user message; every message sent has
\* role user or assistant.
C13_FollowUpTranscript ==
    Answered =>
        LET owners == FlatOwners(log[2].rep) IN
        /\ \A j \in 1..Len(owners) :
             (2 + 2 * j <= Len(log) /\ log[2 + 2 * j].op = "completion") =>
                 LET content == owners[j]
                     said == IF content # None /\ content[1] # <<>>
                               THEN <<[role |-> "assistant", content |-> content[1]]>>
                               ELSE <<>>
                 IN log[2 + 2 * j].req.messages =
                        log[2 * j].req.messages \o said
                        \o <<UserMessage(log[1 + 2 * j].rep.content)>>
        /\ \A i \in CompletionEvents :
             \A k \in 1..Len(log[i].req.messages) :
                 log[i].req.messages[k].role \in {"user", "assistant"}

\* a message with content "a" requested two tool calls: its content is in the
\* transcript twice
C13_Witness ==
    /\ Returned /\ Answered
    /\ Len(log[2].rep) = 1
    /\ log[2].rep[1].content = Str(<<"a">>)
    /\ Len(log[2].rep[1].tool_calls) = 2
    /\ Len(log) = 6
    /\ log[6].req.messages =
         <<UserMessage(Strip(line)),
           [role |-> "assistant", content |-> <<"a">>], UserMessage(<<"r">>),
           [role |-> "assistant", content |-> <<"a">>], UserMessage(<<"r">>)>>

\* C14: when the first response holds a tool call whose arguments cannot be
\* decoded, the query goes no further than the tool calls before the first
\* such call: no call_tool for it or for a later one, no completion after
\* it, no normal return, and what the failed query hands back is empty.
C14_DecodeFailureEndsQuery ==
    Answered =>
        LET calls == FlatCalls(log[2].rep)
            bad == {j \in 1..Len(calls) : ~JsonWellFormed(calls[j].arguments)}
        IN bad # {} =>
             LET m == CHOOSE j \in bad : \A k \in bad : j <= k IN
             /\ Len(log) <= 2 * m
             /\ ~Returned
             /\ Raised => outcome.value = <<>> /\ outcome.report # "answer"
             /\ (Raised /\ outcome.exc = "JSONDecodeError") => Len(log) = 2 * m

\* the second tool call is malformed: the first was called and followed up,
\* and its trace line and follow-up text are not handed back
C14_Witness ==
    /\ Raised /\ Answered
    /\ outcome.exc = "JSONDecodeError"
    /\ outcome.value = <<>>
    /\ Ops(log) = <<"list_tools", "completion", "call_tool", "completion">>
    /\ log[3].req.name = <<"t2">>
    /\ log[4].rep[1].content = Str(<<"f">>)

\* C15 as stated: every completion request comes right after a list_tools call.
C15_Original ==
    \A i \in CompletionEvents : i > 1 /\ log[i - 1].op = "list_tools"

\* C15: a query calls list_tools once, right before its first completion
\* request, and that request carries the declarations of the tools just
\* listed; a follow-up request comes right after a call_tool, with no
\* list_tools before it and no tool declarations in it.
C15_ListedOncePerQuery ==
    /\ Cardinality({i \in 1..Len(log) : log[i].op = "list_tools"}) <= 1
    /\ \A i \in CompletionEvents :
         IF i = 2
           THEN /\ log[1].op = "list_tools" /\ log[1].ok
                /\ log[2].req.tools # None
                /\ Len(log[2].req.tools[1]) = Len(log[1].rep)
                /\ \A k \in 1..Len(log[1].rep) :
                     log[2].req.tools[1][k].function.name = log[1].rep[k].name
           ELSE /\ i > 2
                /\ log[i - 1].op = "call_tool"
                /\ log[i].req.tools = None

C15_Witness ==
    /\ Returned
    /\ Ops(log) = <<"list_tools", "completion", "call_tool", "completion">>
    /\ Len(log[1].rep) = 1
    /\ log[2].req.tools # None
    /\ log[4].req.tools = None

\* the index of the choice requesting each tool call of a response
RECURSIVE FlatIndex(_, _)
FlatIndex(r, c) ==
    IF r = <<>> THEN <<>>
    ELSE [k \in 1..Len(Head(r).tool_calls) |-> c] \o FlatIndex(Tail(r), c + 1)
\* the plain choices of r before choice c
PlainBefore(r, c) == Cardinality({k \in 1..(c - 1) : r[k].tool_calls = <<>>})

\* C16: the first completion request carries the tool declarations and no
\* later one does; the content of the first choice of every follow-up
\* response is in final_text, right after the trace line of its tool call.
C16_FollowUpCarriesNoTools ==
    Answered =>
        /\ log[2].req.tools # None
        /\ \A i \in CompletionEvents : i > 2 => log[i].req.tools = None
        /\ pc \in {"choice", "followup"} =>
             LET calls == FlatCalls(log[2].rep)
                 index == FlatIndex(log[2].rep, 1)
             IN \A j \in 1..Len(calls) :
                  (2 + 2 * j <= Len(log)) =>
                     LET at == 2 * j + PlainBefore(log[2].rep, index[j]) IN
                     /\ at <= Len(final_text)
                     /\ final_text[at] = log[2 + 2 * j].rep[1].content
                     /\ final_text[at - 1] =
                          Str(TraceLine(calls[j].name, json_loads(calls[j].arguments).value))

\* a plain choice, then a choice with a tool call whose follow-up said "f"
C16_Witness ==
    /\ pc = "choice" /\ Answered
    /\ Len(log) = 4
    /\ log[2].rep[1].tool_calls = <<>>
    /\ log[4].req.tools = None
    /\ log[4].rep[1].content = Str(<<"f">>)
    /\ Len(final_text) = 3
    /\ final_text[3] = Str(<<"f">>)

RECURSIVE CallEntries(_, _, _)
\* what the tool calls tcs, numbered from base + 1 among those of the first
\* response, have put in final_text given the external calls lg made so far
CallEntries(tcs, base, lg) ==
    IF tcs = <<>> THEN <<>>
    ELSE LET at == 3 + 2 * base IN
         (IF at <= Len(lg) /\ lg[at].ok
            THEN <<Str(TraceLine(Head(tcs).name, lg[at].req.arguments))>> ELSE <<>>)
         \o (IF at + 1 <= Len(lg) /\ lg[at + 1].ok
               THEN <<lg[at + 1].rep[1].content>> ELSE <<>>)
         \o CallEntries(Tail(tcs), base + 1, lg)
RECURSIVE Contributions(_, _, _)
\* the entries of the choices r, one after the other
Contributions(r, base, lg) ==
    IF r = <<>> THEN <<>>
    ELSE (IF Head(r).tool_calls = <<>> THEN <<Head(r).content>>
          ELSE CallEntries(Head(r).tool_calls, base, lg))
         \o Contributions(Tail(r), base + Len(Head(r).tool_calls), lg)

\* C17: while a query is processed the choices iterated are those of the
\* first response, whatever the follow-ups answered; final_text holds the
\* contributions of the choices already passed and of the tool calls done in
\* the current one, in choice order; once the last choice is passed every
\* tool call of every choice has been dispatched, in order.
C17_ChoicesInOrder ==
    (pc \in {"choice", "followup"}) =>
        /\ Answered
        /\ choices = log[2].rep
        /\ ci >= 1 /\ ci <= Len(choices) + 1
        /\ LET current == IF ci <= Len(choices) /\ HasToolCalls(choices[ci])
                            THEN <<choices[ci]>> ELSE <<>>
           IN final_text = Contributions(SubSeq(choices, 1, ci - 1) \o current, 0, log)
        /\ ci > Len(choices) =>
             LET calls == FlatCalls(log[2].rep) IN
             /\ Len(log) = 2 + 2 * Len(calls)
             /\ \A j \in 1..Len(calls) : log[1 + 2 * j].req.name = calls[j].name

\* a tool-call choice whose follow-up itself asked for a tool, then a plain
\* choice: both passed, three entries in that order
C17_Witness ==
    /\ pc = "choice"
    /\ Len(choices) = 2 /\ ci = 3
    /\ HasToolCalls(choices[1]) /\ ~HasToolCalls(choices[2])
    /\ log[4].rep[1].tool_calls # <<>>
    /\ Len(final_text) = 3
    /\ final_text[2] = log[4].rep[1].content
    /\ final_text[3] = choices[2].content
    /\ choices[2].content = Str(<<"a">>)

\* C18: a failure of connect_to_server ends the program without the loop:
\* no line was read, process_query was not invoked, no completion or
\* call_tool was issued; input() and process_query run on an open session
\* only, and every list_tools was issued on a session that had been set.
C18_LoopOnlyAfterConnect ==
    /\ failure \in {"ValueError", "OSError", "McpError"} =>
         /\ pc \in {"cleanup", "exit"}
         /\ line = <<>> /\ served = 0 /\ outcome = NoOutcome
         /\ Len(log) <= 1
         /\ \A i \in 1..Len(log) : log[i].op = "list_tools" /\ ~log[i].ok
    /\ pc \in {"input", "list_tools", "completion", "choice", "followup"} =>
         session = "open" /\ failure = "none"
    /\ (line # <<>> \/ served > 0 \/ outcome # NoOutcome) =>
         session # "none" /\ failure \in {"none", "EOFError"}
    /\ log # <<>> => session # "none"

\* the first list_tools failed: the program ended after cleanup, nothing read
C18_Witness ==
    /\ pc = "exit" /\ cleanups = 1
    /\ failure = "McpError"
    /\ Len(log) = 1 /\ ~log[1].ok
    /\ line = <<>> /\ served = 0

\* a query is being processed
InQuery == pc \in {"list_tools", "completion", "choice", "followup"}
\* the external calls process_query awaits return, one after the other
QueryStep ==
    \/ ListToolsFails \/ ListTools \/ CompletionFails \/ Completion \/ PlainChoice
    \/ DecodeFails \/ CallToolFails \/ CallTool \/ ResultNotSubscriptable
    \/ FollowUpFails \/ FollowUp \/ Return
LiveSpec == Spec /\ WF_vars(QueryStep)

\* how far process_query has got: before list_tools, before the first
\* completion, in the loops
Phase == CASE pc = "list_tools" -> 3
           [] pc = "completion" -> 2
           [] pc \in {"choice", "followup"} -> 1
           [] OTHER -> 0
RECURSIVE Work(_)
\* what the loops have to do for the choices r: two external calls per tool
\* call, one append per plain choice
Work(r) ==
    IF r = <<>> THEN 0
    ELSE (IF Head(r).tool_calls = <<>> THEN 1 ELSE 2 * Len(Head(r).tool_calls))
         + Work(Tail(r))
\* what is left of it, the return included
Left ==
    IF Phase # 1 THEN 0
    ELSE 1 + Work(SubSeq(choices, ci, Len(choices)))
           - (IF ci <= Len(choices) /\ HasToolCalls(choices[ci]) THEN 2 * (ti - 1) ELSE 0)
           - (IF pc = "followup" THEN 1 ELSE 0)
OpCount(op) == Cardinality({i \in 1..Len(log) : log[i].op = op})

\* C19: a query that returns has made one list_tools call, 1 + N completion
\* requests and N call_tool invocations, N being the number of tool calls in
\* the first response, also when a follow-up response asked for tool calls;
\* every step of a query brings it nearer to its end, and a query in
\* progress comes to an end.
C19_TerminatesWithCounts ==
    /\ [](Returned =>
            LET n == Len(FlatCalls(log[2].rep)) IN
            /\ OpCount("list_tools") = 1
            /\ OpCount("completion") = 1 + n
            /\ OpCount("call_tool") = n
            /\ Len(log) = 2 + 2 * n)
    /\ [][InQuery => \/ Phase' < Phase
                     \/ Phase' = Phase /\ Left' < Left /\ Left' >= 0]_vars
    /\ (InQuery ~> (pc = "input" /\ outcome.kind \in {"return", "raise"}))

\* two tool calls in the first response, a third asked for by the last
\* follow-up: three completions, two call_tool, and the query returned
C19_Witness ==
    /\ Returned
    /\ Len(FlatCalls(log[2].rep)) = 2
    /\ OpCount("completion") = 3 /\ OpCount("call_tool") = 2 /\ OpCount("list_tools") = 1
    /\ log[6].rep[1].tool_calls # <<>>

\* the texts of the entries es that are not null
Kept(es) == LET some == SelectSeq(es, LAMBDA e : e # None)
            IN [i \in 1..Len(some) |-> some[i][1]]
RECURSIVE NewlineJoined(_)
\* the texts ts with a newline between each two neighbours
NewlineJoined(ts) ==
    IF Len(ts) = 0 THEN <<>>
    ELSE IF Len(ts) = 1 THEN ts[1]
    ELSE NewlineJoined(SubSeq(ts, 1, Len(ts) - 1)) \o <<"\n">> \o ts[Len(ts)]

\* C20: the string a query returns is the entries accumulated (the trace
\* line and the follow-up content of each tool call, the content of each
\* plain choice, in the order processed) without the null ones, an empty
\* string kept, with a newline between neighbours; one plain message with
\* null content gives the empty string.
C20_OutputIsJoin ==
    Returned =>
        LET entries == Contributions(log[2].rep, 0, log) IN
        /\ outcome.value = NewlineJoined(Kept(entries))
        /\ (\A i \in 1..Len(entries) : entries[i] = None) => outcome.value = <<>>
        /\ Len(entries) = Len(log) - 2 + PlainBefore(log[2].rep, Len(log[2].rep) + 1)

\* a plain choice with null content, then a tool call whose follow-up
\* content is the empty string: the null entry is left out, the empty one
\* is joined after the trace line
C20_Witness ==
    /\ Returned
    /\ Len(log) = 4
    /\ Len(log[2].rep) = 2
    /\ log[2].rep[1].tool_calls = <<>> /\ log[2].rep[1].content = None
    /\ log[4].rep[1].content = Str(<<>>)
    /\ outcome.value = TraceLine(log[3].req.name, log[3].req.arguments) \o <<"\n">>

====
